---- MODULE Spec2Model ----
(***************************************************************************)
(* A model of the note-recap plugin (MonthlyRecapPlugin).  Texts, file     *)
(* names and paths are sequences of one-character strings, so that the     *)
(* regular expressions and string operations of the source are computed    *)
(* character by character.                                                 *)
(***************************************************************************)
EXTENDS Integers, Sequences, FiniteSets, TLC

VARIABLES
    cleanIn,    \* cleanFileContent: the text handed to the cleaner
    cleanOut,   \* cleanFileContent: the results of the calls made so far
    cleanPc     \* cleanFileContent: number of calls made (as a string)

cleanVars == <<cleanIn, cleanOut, cleanPc>>

VARIABLES
    grpFiles,   \* grouping: the file list handed to the grouping functions
    grpTz,      \* grouping: the host's offset from UTC, in hours
    grpMonth,   \* grouping: what groupNotesByYearAndMonth(grpFiles) gave
    grpWeek     \* grouping: what groupNotesByWeek(grpFiles) gave

grpVars == <<grpFiles, grpTz, grpMonth, grpWeek>>

VARIABLES
    sumBuild,    \* generateGPTSummary: which source file's version runs
    sumContent,  \* generateGPTSummary: the content handed in
    sumKey,      \* generateGPTSummary: settings.gptApiKey
    sumPc,       \* generateGPTSummary: where the call is
    sumResponse, \* generateGPTSummary: what the fetch settled with
    sumResult,   \* generateGPTSummary: the value returned, the notices shown
    sumFetches   \* generateGPTSummary: requests sent

sumVars == <<sumBuild, sumContent, sumKey, sumPc, sumResponse, sumResult, sumFetches>>

VARIABLES
    vault,      \* the files of the vault, in getFiles() order: path and data
    settings,   \* this.settings
    hostTz,     \* the host's offset from UTC, in hours
    now,        \* the host's clock, in hours since 1970-01-01T00:00Z
    calls,      \* the recap operations started so far, in start order
    edits,      \* number of edits the user has made to notes
    failures    \* number of file-store failures so far

machineVars == <<vault, settings, hostTz, now, calls, edits, failures>>

VARIABLES
    autoSettings, \* the timer: settings.autoGenerateMonthly, autoGenerateWeekly
    autoTz,       \* the timer: the host's offset from UTC, in hours
    autoStart,    \* the timer: when onload registered it, in minutes since 1970
    autoTicks,    \* the timer: number of ticks so far
    autoStarted   \* the timer: what checkAutoGenerate started at each tick

autoVars == <<autoSettings, autoTz, autoStart, autoTicks, autoStarted>>

vars == <<cleanVars, grpVars, sumVars, machineVars, autoVars>>

\* each specification below exercises one part of the plugin and holds the
\* variables of the other parts at rest
CleanAtRest == cleanIn = <<>> /\ cleanOut = <<>> /\ cleanPc = "rest"
GroupAtRest == grpFiles = <<>> /\ grpTz = 0 /\ grpMonth = <<>> /\ grpWeek = <<>>
SummaryAtRest ==
    /\ sumBuild = "part_000" /\ sumContent = <<>> /\ sumKey = <<>> /\ sumPc = "rest"
    /\ sumResponse = <<>> /\ sumResult = <<>> /\ sumFetches = 0
MachineAtRest ==
    /\ vault = <<>> /\ settings = <<>> /\ hostTz = 0 /\ now = 0 /\ calls = <<>>
    /\ edits = 0 /\ failures = 0
AutoAtRest ==
    /\ autoSettings = <<>> /\ autoTz = 0 /\ autoStart = 0 /\ autoTicks = 0
    /\ autoStarted = <<>>

(***************************************************************************)
(* Strings                                                                 *)
(***************************************************************************)
Min(S) == CHOOSE x \in S : \A y \in S : x <= y
Max(S) == CHOOSE x \in S : \A y \in S : x >= y

\* s.startsWith(lit, i-1) with 1-based i
StartsAt(s, i, lit) ==
    /\ i >= 1
    /\ i + Len(lit) - 1 <= Len(s)
    /\ \A k \in 1..Len(lit) : s[i + k - 1] = lit[k]

\* first index j >= from where lit occurs in s, 0 when there is none
IndexOf(s, lit, from) ==
    LET hits == {j \in from..Len(s) : StartsAt(s, j, lit)}
    IN  IF hits = {} THEN 0 ELSE Min(hits)

\* the regular-expression class \s, on the characters the model uses
IsSpace(c) == c \in {" ", "\n", "\t", "\r"}

\* what the regular-expression dot does not match
IsLineTerminator(c) == c \in {"\n", "\r"}

\* String.prototype.trim
Trim(s) ==
    LET keep == {i \in 1..Len(s) : ~IsSpace(s[i])}
    IN  IF keep = {} THEN <<>> ELSE SubSeq(s, Min(keep), Max(keep))

(***************************************************************************)
(* cleanFileContent                                                        *)
(***************************************************************************)
\* the grave accent, which a TLA+ string cannot hold
Backtick         == "GRAVE"
FrontmatterOpen  == <<"-", "-", "-", "\n">>
FrontmatterClose == <<"\n", "-", "-", "-", "\n">>
DailiesHeading   == <<"#", " ", "D", "a", "i", "l", "i", "e", "s">>
DailyLawHeading  == <<"#", " ", "D", "a", "i", "l", "y", " ", "L", "a", "w">>
FenceOpen        == <<Backtick, Backtick, Backtick, "c", "a", "l", "e", "n", "d", "a", "r", "-", "n", "a", "v">>
FenceClose       == <<Backtick, Backtick, Backtick>>

\* content.replace(/^---\n[\s\S]*?\n---\n/, '')
StripFrontmatter(s) ==
    IF ~StartsAt(s, 1, FrontmatterOpen) THEN s
    ELSE LET j == IndexOf(s, FrontmatterClose, Len(FrontmatterOpen) + 1)
         IN  IF j = 0 THEN s
             ELSE SubSeq(s, j + Len(FrontmatterClose), Len(s))

\* (?:- \[[ x]\] .*\n?)* tried at index k: the index of the last character it
\* consumes, k-1 when it consumes nothing
RECURSIVE ChecklistEnd(_, _)
ChecklistEnd(s, k) ==
    IF /\ StartsAt(s, k, <<"-", " ", "[">>)
       /\ k + 5 <= Len(s)
       /\ s[k + 3] \in {" ", "x"}
       /\ s[k + 4] = "]"
       /\ s[k + 5] = " "
    THEN LET stops == {e \in (k + 6)..Len(s) : IsLineTerminator(s[e])}
             e     == IF stops = {} THEN Len(s) + 1 ELSE Min(stops)
         IN  IF e <= Len(s) /\ s[e] = "\n"
             THEN ChecklistEnd(s, e + 1)
             ELSE e - 1
    ELSE k - 1

\* heading\s*\n(?:- \[[ x]\] .*\n?)* tried at index i: the index of the last
\* character of the match, 0 when there is no match at i
HeadingMatchEnd(s, i, heading) ==
    IF ~StartsAt(s, i, heading) THEN 0
    ELSE LET p      == i + Len(heading)
             nonsp  == {q \in p..Len(s) : ~IsSpace(s[q])}
             q      == IF nonsp = {} THEN Len(s) + 1 ELSE Min(nonsp)
             nls    == {n \in p..(q - 1) : s[n] = "\n"}
         IN  IF nls = {} THEN 0
             ELSE ChecklistEnd(s, Max(nls) + 1)

\* the fence pattern tried at index i: the index of the last character of the
\* match, 0 when there is no match at i
FenceMatchEnd(s, i) ==
    IF ~StartsAt(s, i, FenceOpen) THEN 0
    ELSE LET j == IndexOf(s, FenceClose, i + Len(FenceOpen))
         IN  IF j = 0 THEN 0 ELSE j + Len(FenceClose) - 1

\* content.replace(/heading.../g, ''), scanning from index i
RECURSIVE StripHeadingFrom(_, _, _)
StripHeadingFrom(s, i, heading) ==
    IF i > Len(s) THEN <<>>
    ELSE LET e == HeadingMatchEnd(s, i, heading)
         IN  IF e # 0 THEN StripHeadingFrom(s, e + 1, heading)
             ELSE <<s[i]>> \o StripHeadingFrom(s, i + 1, heading)

\* content.replace(/(3 grave accents)calendar-nav[\s\S]*?(3 grave accents)/g, ''),
\* scanning from index i
RECURSIVE StripFenceFrom(_, _)
StripFenceFrom(s, i) ==
    IF i > Len(s) THEN <<>>
    ELSE LET e == FenceMatchEnd(s, i)
         IN  IF e # 0 THEN StripFenceFrom(s, e + 1)
             ELSE <<s[i]>> \o StripFenceFrom(s, i + 1)

StripDailies(s)  == StripHeadingFrom(s, 1, DailiesHeading)
StripFence(s)    == StripFenceFrom(s, 1)
StripDailyLaw(s) == StripHeadingFrom(s, 1, DailyLawHeading)

cleanFileContent(content) ==
    Trim(StripDailyLaw(StripFence(StripDailies(StripFrontmatter(content)))))

\* texts the cleaner strips: a terminated frontmatter block, a checklist line
FrontmatterBlock == <<"-", "-", "-", "\n", "t", "\n", "-", "-", "-", "\n">>
ChecklistLine    == <<"-", " ", "[", "x", "]", " ", "t", "\n">>

(***************************************************************************)
(* Dates.  A Date is an instant, counted in whole hours since               *)
(* 1970-01-01T00:00Z, or the invalid Date.  The host's local time is UTC    *)
(* plus a fixed offset of tz hours.                                         *)
(***************************************************************************)
Digits == <<"0", "1", "2", "3", "4", "5", "6", "7", "8", "9">>

\* the regular-expression class \d
IsDigit(c) == \E k \in 1..10 : Digits[k] = c

DigitValue(c) == (CHOOSE k \in 1..10 : Digits[k] = c) - 1

\* the number written by the digits s[i..j]
RECURSIVE ParseInt(_, _, _)
ParseInt(s, i, j) ==
    IF j < i THEN 0 ELSE 10 * ParseInt(s, i, j - 1) + DigitValue(s[j])

\* String(n).padStart(width, '0')
RECURSIVE DecimalDigits(_)
DecimalDigits(n) ==
    IF n < 10 THEN <<Digits[n + 1]>>
    ELSE DecimalDigits(n \div 10) \o <<Digits[(n % 10) + 1]>>

RECURSIVE PadStart(_, _)
PadStart(s, width) == IF Len(s) >= width THEN s ELSE PadStart(<<"0">> \o s, width)

IsLeapYear(y) == (y % 4 = 0 /\ y % 100 # 0) \/ y % 400 = 0

DaysInMonth(y, m) ==
    IF m = 2 THEN (IF IsLeapYear(y) THEN 29 ELSE 28)
    ELSE IF m \in {4, 6, 9, 11} THEN 30 ELSE 31

\* days from 1970-01-01 to the civil date y-m-d (proleptic Gregorian)
DaysFromCivil(y, m, d) ==
    LET yy  == IF m <= 2 THEN y - 1 ELSE y
        era == yy \div 400
        yoe == yy - era * 400
        mp  == IF m > 2 THEN m - 3 ELSE m + 9
        doy == (153 * mp + 2) \div 5 + d - 1
        doe == yoe * 365 + yoe \div 4 - yoe \div 100 + doy
    IN  era * 146097 + doe - 719468

\* the civil date of a day number
CivilFromDays(days) ==
    LET z   == days + 719468
        era == z \div 146097
        doe == z - era * 146097
        yoe == (doe - doe \div 1460 + doe \div 36524 - doe \div 146096) \div 365
        doy == doe - (365 * yoe + yoe \div 4 - yoe \div 100)
        mp  == (5 * doy + 2) \div 153
        d   == doy - (153 * mp + 2) \div 5 + 1
        m   == IF mp < 10 THEN mp + 3 ELSE mp - 9
        y   == yoe + era * 400 + (IF m <= 2 THEN 1 ELSE 0)
    IN  [year |-> y, month |-> m, day |-> d]

InvalidDate == [valid |-> FALSE, t |-> 0]
DateAt(hours) == [valid |-> TRUE, t |-> hours]

\* new Date("YYYY-MM-DD"): a date-only ISO string is UTC midnight; a day of
\* 29..31 past the month's end rolls over into the next month (V8, the engine
\* of the host application); any other field out of range gives Invalid Date
NewDateFromToken(tok) ==
    LET y == ParseInt(tok, 1, 4)
        m == ParseInt(tok, 6, 7)
        d == ParseInt(tok, 9, 10)
    IN  IF m \in 1..12 /\ d \in 1..31
        THEN DateAt(24 * (DaysFromCivil(y, m, 1) + d - 1))
        ELSE InvalidDate

\* the local calendar day (a day number) of a valid Date
LocalDay(date, tz) == (date.t + tz) \div 24

\* Date.prototype.getHours, getDate, getDay, getFullYear
getHours(date, tz)    == (date.t + tz) % 24
getDate(date, tz)     == CivilFromDays(LocalDay(date, tz)).day
getDay(date, tz)      == (LocalDay(date, tz) + 4) % 7
getFullYear(date, tz) == CivilFromDays(LocalDay(date, tz)).year

\* local midnight of a local calendar day
LocalMidnight(day, tz) == DateAt(24 * day - tz)

\* date-fns startOfWeek(date, {weekStartsOn: 0}): local midnight of the Sunday
\* on or before the local date
startOfWeek(date, tz) ==
    IF ~date.valid THEN InvalidDate
    ELSE LocalMidnight(LocalDay(date, tz) - getDay(date, tz), tz)

\* date-fns format(date, 'yyyy-MM-dd'), for a valid Date
format(date, tz) ==
    LET c == CivilFromDays(LocalDay(date, tz))
    IN  PadStart(DecimalDigits(c.year), 4) \o <<"-">>
        \o PadStart(DecimalDigits(c.month), 2) \o <<"-">>
        \o PadStart(DecimalDigits(c.day), 2)

\* date-fns startOfWeekYear's first week of year y (firstWeekContainsDate 1,
\* weekStartsOn 0): the week that contains 1 January
FirstWeekStart(y, tz) == startOfWeek(LocalMidnight(DaysFromCivil(y, 1, 1), tz), tz)

\* date-fns getWeekYear(date)
getWeekYear(date, tz) ==
    LET year == getFullYear(date, tz)
    IN  IF date.t >= FirstWeekStart(year + 1, tz).t THEN year + 1
        ELSE IF date.t >= FirstWeekStart(year, tz).t THEN year
        ELSE year - 1

\* date-fns getWeek(date), also with {weekStartsOn: 0}, its default
getWeek(date, tz) ==
    LET diff == startOfWeek(date, tz).t - FirstWeekStart(getWeekYear(date, tz), tz).t
    IN  diff \div (7 * 24) + 1

(***************************************************************************)
(* Files and grouping.  A file is its vault path; TFile.name is the part    *)
(* after the last slash and TFile.extension the part after the name's last  *)
(* dot.  A Record<string, TFile[]> is the sequence of its entries in        *)
(* insertion order, which is the order Object.entries gives them in.        *)
(***************************************************************************)
\* TFile.name
FileName(path) ==
    LET slashes == {i \in 1..Len(path) : path[i] = "/"}
    IN  IF slashes = {} THEN path ELSE SubSeq(path, Max(slashes) + 1, Len(path))

\* TFile.extension
FileExtension(path) ==
    LET name == FileName(path)
        dots == {i \in 1..Len(name) : name[i] = "."}
    IN  IF dots = {} THEN <<>> ELSE SubSeq(name, Max(dots) + 1, Len(name))

\* name.match(/^(\d{4})-(\d{2})-\d{2}/) is not null
MatchesDateToken(name) ==
    /\ Len(name) >= 10
    /\ \A i \in {1, 2, 3, 4, 6, 7, 9, 10} : IsDigit(name[i])
    /\ name[5] = "-"
    /\ name[8] = "-"

\* a push that puts the file first in its bucket
PushFirst(grouped, key, file) ==
    IF \E i \in 1..Len(grouped) : grouped[i].key = key
    THEN [i \in 1..Len(grouped) |->
            IF grouped[i].key = key
            THEN [grouped[i] EXCEPT !.files = <<file>> \o @]
            ELSE grouped[i]]
    ELSE Append(grouped, [key |-> key, files |-> <<file>>])

\* a push that makes the bucket of a new key and leaves the file out of it
PushNewEmpty(grouped, key, file) ==
    IF \E i \in 1..Len(grouped) : grouped[i].key = key
    THEN [i \in 1..Len(grouped) |->
            IF grouped[i].key = key
            THEN [grouped[i] EXCEPT !.files = Append(@, file)]
            ELSE grouped[i]]
    ELSE Append(grouped, [key |-> key, files |-> <<>>])

\* if (!grouped[key]) grouped[key] = []; grouped[key].push(file)
Push(grouped, key, file) ==
    IF \E i \in 1..Len(grouped) : grouped[i].key = key
    THEN [i \in 1..Len(grouped) |->
            IF grouped[i].key = key
            THEN [grouped[i] EXCEPT !.files = Append(@, file)]
            ELSE grouped[i]]
    ELSE Append(grouped, [key |-> key, files |-> <<file>>])

RECURSIVE MonthGroupFrom(_, _, _)
MonthGroupFrom(files, i, grouped) ==
    IF i > Len(files) THEN grouped
    ELSE LET name == FileName(files[i])
         IN  IF MatchesDateToken(name)
             THEN MonthGroupFrom(files, i + 1, Push(grouped, SubSeq(name, 1, 7), files[i]))
             ELSE MonthGroupFrom(files, i + 1, grouped)

groupNotesByYearAndMonth(files) ==
    [status |-> "returned", grouped |-> MonthGroupFrom(files, 1, <<>>)]

\* the loop of groupNotesByWeek from file i on; format throws a RangeError
\* when it is handed an invalid Date, and nothing catches it
RECURSIVE WeekGroupFrom(_, _, _, _)
WeekGroupFrom(files, i, grouped, tz) ==
    IF i > Len(files) THEN [status |-> "returned", grouped |-> grouped]
    ELSE LET name == FileName(files[i])
         IN  IF MatchesDateToken(name)
             THEN LET date      == NewDateFromToken(SubSeq(name, 1, 10))
                      weekStart == startOfWeek(date, tz)
                  IN  IF ~weekStart.valid
                      THEN [status |-> "threw", grouped |-> <<>>]
                      ELSE WeekGroupFrom(files, i + 1,
                                         Push(grouped, format(weekStart, tz), files[i]), tz)
             ELSE WeekGroupFrom(files, i + 1, grouped, tz)

groupNotesByWeek(files, tz) == WeekGroupFrom(files, 1, <<>>, tz)

(***************************************************************************)
(* The two grouping functions applied to bounded file lists.                *)
(***************************************************************************)
MaxFiles == 3

\* the host's possible offsets from UTC, in hours
TzOffsets == {-5, 0, 9}

DateToken(y, m, d) ==
    PadStart(DecimalDigits(y), 4) \o <<"-">> \o PadStart(DecimalDigits(m), 2)
        \o <<"-">> \o PadStart(DecimalDigits(d), 2)

MdSuffix == <<".", "m", "d">>

NotePath(folder, name) == folder \o <<"/">> \o name

GroupNames ==
    { DateToken(2024, 3, 10) \o MdSuffix,
      DateToken(2024, 3, 16) \o MdSuffix,
      DateToken(2024, 3, 17) \o MdSuffix,
      DateToken(2024, 3, 12) \o <<" ", "a">> \o MdSuffix,
      DateToken(2024, 4, 2) \o MdSuffix,
      DateToken(2023, 12, 31) \o MdSuffix,
      DateToken(2024, 13, 45) \o MdSuffix,
      <<"2", "0", "2", "4", "-", "W", "1", "1">> \o MdSuffix,
      <<"t", "o", "d", "o">> \o MdSuffix }

GroupFiles == {NotePath(<<"D">>, n) : n \in GroupNames}

\* the file lists vault.getFiles() can give: no file twice
FileLists(pool, max) ==
    {fs \in UNION {[1..n -> pool] : n \in 0..max} :
        \A i, j \in 1..Len(fs) : i # j => fs[i] # fs[j]}

NotRun == [status |-> "none", grouped |-> <<>>]

GroupInit ==
    /\ grpFiles \in FileLists(GroupFiles, MaxFiles)
    /\ grpTz \in TzOffsets
    /\ grpMonth = NotRun
    /\ grpWeek = NotRun
    /\ CleanAtRest
    /\ SummaryAtRest
    /\ MachineAtRest
    /\ AutoAtRest

ByYearAndMonth ==
    /\ grpMonth = NotRun
    /\ grpMonth' = groupNotesByYearAndMonth(grpFiles)
    /\ UNCHANGED <<grpFiles, grpTz, grpWeek, cleanVars, sumVars, machineVars, autoVars>>

ByWeek ==
    /\ grpWeek = NotRun
    /\ grpWeek' = groupNotesByWeek(grpFiles, grpTz)
    /\ UNCHANGED <<grpFiles, grpTz, grpMonth, cleanVars, sumVars, machineVars, autoVars>>

GroupNext == ByYearAndMonth \/ ByWeek

SpecGroup == GroupInit /\ [][GroupNext]_vars

\* the file name starts with YYYY-MM-DD and that names a day of the calendar
HasValidDateToken(file) ==
    LET name == FileName(file)
    IN  /\ MatchesDateToken(name)
        /\ ParseInt(name, 6, 7) \in 1..12
        /\ ParseInt(name, 9, 10) \in 1..DaysInMonth(ParseInt(name, 1, 4), ParseInt(name, 6, 7))

\* the places (bucket, position) a file takes in a grouping
PlacesOf(file, grouped) ==
    {<<b, k>> \in (1..Len(grouped)) \X (1..MaxFiles + 1) :
        k <= Len(grouped[b].files) /\ grouped[b].files[k] = file}

PartitionedBy(result) ==
    /\ result.status = "returned"
    /\ \A i \in 1..Len(grpFiles) :
         Cardinality(PlacesOf(grpFiles[i], result.grouped))
            = IF HasValidDateToken(grpFiles[i]) THEN 1 ELSE 0

\* C2: both groupings return, with every file that has a valid date token in
\* exactly one bucket and every other file in none
C2_GroupingPartition ==
    /\ grpMonth # NotRun => PartitionedBy(grpMonth)
    /\ grpWeek # NotRun => PartitionedBy(grpWeek)

\* every bucket holds at least one file, each a file of the list whose name
\* starts with a date token; a list without such a file gives no bucket
BucketsHoldNotes(result) ==
    /\ \A b \in 1..Len(result.grouped) :
         /\ Len(result.grouped[b].files) >= 1
         /\ \A k \in 1..Len(result.grouped[b].files) :
              /\ result.grouped[b].files[k] \in {grpFiles[i] : i \in 1..Len(grpFiles)}
              /\ MatchesDateToken(FileName(result.grouped[b].files[k]))
    /\ (\A i \in 1..Len(grpFiles) : ~MatchesDateToken(FileName(grpFiles[i])))
          => result.grouped = <<>>

\* C25: neither grouping returns an empty bucket, nor any bucket for a file
\* list without a date-named file
C25_NoEmptyBucket ==
    /\ grpMonth # NotRun => BucketsHoldNotes(grpMonth)
    /\ grpWeek # NotRun => BucketsHoldNotes(grpWeek)

\* both groupings have returned buckets for a list that also holds a file
\* without a date token
C25_Witness ==
    /\ Len(grpFiles) = 3
    /\ \E i \in 1..Len(grpFiles) : ~MatchesDateToken(FileName(grpFiles[i]))
    /\ grpMonth.status = "returned"
    /\ Len(grpMonth.grouped) = 2
    /\ grpWeek.status = "returned"
    /\ Len(grpWeek.grouped) = 2

\* the day number of the Sunday on or before the date a file name starts with
FileNameSunday(file) ==
    LET name == FileName(file)
        day  == DaysFromCivil(ParseInt(name, 1, 4), ParseInt(name, 6, 7), ParseInt(name, 9, 10))
    IN  day - ((day + 4) % 7)

WeekKeysOf(file) ==
    {grpWeek.grouped[p[1]].key : p \in PlacesOf(file, grpWeek.grouped)}

\* C3: two date-named notes share a week key exactly when their dates lie in
\* the same Sunday-to-Saturday span, and the key is that span's Sunday
C3_WeekBuckets ==
    grpWeek.status = "returned" =>
        \A i, j \in 1..Len(grpFiles) :
            (HasValidDateToken(grpFiles[i]) /\ HasValidDateToken(grpFiles[j])) =>
                /\ (WeekKeysOf(grpFiles[i]) = WeekKeysOf(grpFiles[j]))
                      <=> (FileNameSunday(grpFiles[i]) = FileNameSunday(grpFiles[j]))
                /\ LET c == CivilFromDays(FileNameSunday(grpFiles[i]))
                   IN  WeekKeysOf(grpFiles[i]) = {DateToken(c.year, c.month, c.day)}

(***************************************************************************)
(* generateGPTSummary.  JavaScript values are tagged records; reading a     *)
(* property of undefined or null throws a TypeError.                        *)
(***************************************************************************)
Undefined  == [t |-> "undefined"]
Null       == [t |-> "null"]
Str(s)     == [t |-> "string", v |-> s]
Obj(f)     == [t |-> "object", f |-> f]
Arr(items) == [t |-> "array", items |-> items]

EmptyObject == Obj([k \in {} |-> Undefined])

IsNullish(v) == v.t \in {"undefined", "null"}

\* v.k for a value v that is not nullish
Get(v, k) ==
    IF v.t = "object" /\ k \in DOMAIN v.f THEN v.f[k] ELSE Undefined

\* ToBoolean
Truthy(v) ==
    CASE v.t \in {"undefined", "null"} -> FALSE
      [] v.t = "string" -> v.v # <<>>
      [] OTHER -> TRUE

\* v.length > 0
HasPositiveLength(v) ==
    CASE v.t = "array" -> Len(v.items) > 0
      [] v.t = "string" -> Len(v.v) > 0
      [] OTHER -> FALSE

\* v[0] for a value with a positive length
First(v) == IF v.t = "array" THEN v.items[1] ELSE Str(<<v.v[1]>>)

\* what a try block ends with: a returned value or a thrown error
Returned(v) == [thrown |-> FALSE, value |-> v]
Thrown(msg) == [thrown |-> TRUE, message |-> msg]

\* a response body the JSON parser rejects
Unparseable == [t |-> "unparseable"]

\* what a fetch settles with: a response, or a rejection without one
Rejected          == [kind |-> "rejected"]
Response(ok, b)   == [kind |-> "response", ok |-> ok, body |-> b]
NoResponse        == [kind |-> "none"]

\* part_000, the try block from the fetch on
TryBlock(response) ==
    IF response = Rejected THEN Thrown(<<"Failed to fetch">>)
    ELSE IF response.body = Unparseable THEN Thrown(<<"SyntaxError">>)
    ELSE IF ~response.ok
    THEN LET errorData == response.body
         IN  IF IsNullish(errorData) THEN Thrown(<<"TypeError">>)
             ELSE IF IsNullish(Get(errorData, "error")) THEN Thrown(<<"TypeError">>)
             ELSE Thrown(<<"API Error: ", Get(Get(errorData, "error"), "message")>>)
    ELSE LET data == response.body
         IN  IF IsNullish(data) THEN Thrown(<<"TypeError">>)
             ELSE IF Truthy(Get(data, "choices")) /\ HasPositiveLength(Get(data, "choices"))
             THEN LET choice == First(Get(data, "choices"))
                  IN  IF IsNullish(choice) THEN Thrown(<<"TypeError">>)
                      ELSE IF IsNullish(Get(choice, "message")) THEN Thrown(<<"TypeError">>)
                      ELSE Returned(Get(Get(choice, "message"), "content"))
             ELSE Thrown(<<"No summary generated">>)

\* main.ts, the try block from the fetch on: the status is not looked at
TryBlockMainTs(response) ==
    IF response = Rejected THEN Thrown(<<"Failed to fetch">>)
    ELSE IF response.body = Unparseable THEN Thrown(<<"SyntaxError">>)
    ELSE LET data == response.body
         IN  IF IsNullish(data) THEN Thrown(<<"TypeError">>)
             ELSE IF Truthy(Get(data, "choices")) /\ HasPositiveLength(Get(data, "choices"))
             THEN LET choice == First(Get(data, "choices"))
                  IN  IF IsNullish(choice) THEN Thrown(<<"TypeError">>)
                      ELSE IF IsNullish(Get(choice, "message")) THEN Thrown(<<"TypeError">>)
                      ELSE Returned(Get(Get(choice, "message"), "content"))
             ELSE Thrown(<<"No summary generated">>)

NoKeyNotice      == [text |-> "GPT API key is not set. Please set it in the plugin settings."]
ErrorNotice(msg) == [text |-> "Error generating GPT summary: ", detail |-> msg]
ErrorNoticeMainTs == [text |-> "Error generating GPT summary. Check console for details."]

\* a catch block that shows the notice and forgets to return the content
CatchBlockNoReturn(build, content, outcome) ==
    IF outcome.thrown
    THEN [raised  |-> FALSE,
          value   |-> Undefined,
          notices |-> <<ErrorNotice(outcome.message)>>]
    ELSE [raised |-> FALSE, value |-> outcome.value, notices |-> <<>>]

\* the catch block: a notice, and the content handed in is returned
CatchBlock(build, content, outcome) ==
    IF outcome.thrown
    THEN [raised  |-> FALSE,
          value   |-> Str(content),
          notices |-> <<IF build = "main.ts" THEN ErrorNoticeMainTs
                        ELSE ErrorNotice(outcome.message)>>]
    ELSE [raised |-> FALSE, value |-> outcome.value, notices |-> <<>>]

\* generateGPTSummary(content) once the fetch has settled with response
AfterFetch(build, content, response) ==
    CatchBlock(build, content,
               IF build = "main.ts" THEN TryBlockMainTs(response) ELSE TryBlock(response))

\* a call that sends the request without looking at the key
BeforeFetchNoKeyCheck(apiKey, content) == [fetches |-> 1]

\* generateGPTSummary(content) up to the fetch: without a key it returns
\* at once, with a key it sends one request
BeforeFetch(apiKey, content) ==
    IF apiKey = <<>>
    THEN [fetches |-> 0, raised |-> FALSE, value |-> Str(content), notices |-> <<NoKeyNotice>>]
    ELSE [fetches |-> 1]

(***************************************************************************)
(* generateGPTSummary applied to bounded contents, keys and responses.      *)
(***************************************************************************)
Builds == {"part_000", "main.ts"}

SummaryText == <<"S">>

Choice(v) == Obj([message |-> Obj([content |-> v])])

\* bodies of a failure response
ErrorBodies ==
    { Unparseable,
      Null,
      EmptyObject,
      Obj([error |-> Null]),
      Obj([error |-> Str(<<"e">>)]),
      Obj([error |-> EmptyObject]),
      Obj([error |-> Obj([message |-> Str(<<"m">>)])]) }

\* bodies that carry a choices field
ChoiceBodies ==
    { Obj([choices |-> Null]),
      Obj([choices |-> Arr(<<>>)]),
      Obj([choices |-> Arr(<<Null>>)]),
      Obj([choices |-> Arr(<<EmptyObject>>)]),
      Obj([choices |-> Arr(<<Obj([message |-> EmptyObject])>>)]),
      Obj([choices |-> Arr(<<Choice(Null)>>)]),
      Obj([choices |-> Arr(<<Choice(Str(SummaryText))>>)]),
      Obj([choices |-> Arr(<<Choice(Str(SummaryText)), Choice(Str(<<"T">>))>>)]) }

\* what the fetch can settle with.  A failure status comes with a failure
\* body; under part_000, which looks at the status, also with any other body
Responses(build) ==
    {Rejected}
        \cup {Response(TRUE, b) : b \in ErrorBodies \cup ChoiceBodies}
        \cup {Response(FALSE, b) :
                b \in IF build = "main.ts" THEN ErrorBodies ELSE ErrorBodies \cup ChoiceBodies}

SummaryContents == {<<"c">>, <<"c", "\n", "\n">>, <<"S">>}
ApiKeys         == {<<>>, <<"k">>}

SummaryInit ==
    /\ sumBuild \in Builds
    /\ sumContent \in SummaryContents
    /\ sumKey \in ApiKeys
    /\ sumPc = "start"
    /\ sumResponse = NoResponse
    /\ sumResult = [raised |-> FALSE, value |-> Undefined, notices |-> <<>>]
    /\ sumFetches = 0
    /\ CleanAtRest
    /\ GroupAtRest
    /\ MachineAtRest
    /\ AutoAtRest

\* the call, up to its first await
SummaryCall ==
    /\ sumPc = "start"
    /\ LET r == BeforeFetch(sumKey, sumContent)
       IN  /\ sumFetches' = sumFetches + r.fetches
           /\ IF r.fetches = 0
              THEN /\ sumPc' = "settled"
                   /\ sumResult' = [raised |-> r.raised, value |-> r.value, notices |-> r.notices]
              ELSE /\ sumPc' = "fetching"
                   /\ UNCHANGED sumResult
    /\ UNCHANGED <<sumBuild, sumContent, sumKey, sumResponse, cleanVars, grpVars, machineVars, autoVars>>

\* the fetch settles and the call runs to its end
SummarySettle ==
    /\ sumPc = "fetching"
    /\ \E r \in Responses(sumBuild) :
         /\ sumResponse' = r
         /\ sumResult' = AfterFetch(sumBuild, sumContent, r)
    /\ sumPc' = "settled"
    /\ UNCHANGED <<sumBuild, sumContent, sumKey, sumFetches, cleanVars, grpVars, machineVars, autoVars>>

SummaryNext == SummaryCall \/ SummarySettle

SpecSummary == SummaryInit /\ [][SummaryNext]_vars

\* C7: after a non-success status the call returns the content handed in
\* and does not raise
C7_FailureStatusFallsBack ==
    (sumPc = "settled" /\ sumResponse.kind = "response"
        /\ ~sumResponse.ok)
        => (~sumResult.raised /\ sumResult.value = Str(sumContent))

C7_Witness ==
    /\ sumPc = "settled"
    /\ sumResponse = Response(FALSE, Obj([error |-> Null]))
    /\ sumResult.value = Str(sumContent)

\* the first choice's text, where the response has one
FirstChoiceText(response) == response.body.f.choices.items[1].f.message.f.content

HasFirstChoiceText(response) ==
    /\ response.kind = "response"
    /\ response.ok
    /\ response.body \in {b \in ChoiceBodies :
          /\ b.f.choices.t = "array"
          /\ Len(b.f.choices.items) > 0
          /\ b.f.choices.items[1] \in {Choice(Str(SummaryText)), Choice(Str(<<"T">>))}}

\* C8: after a success status the call returns the first choice's text, or,
\* when there is none, shows a notice and returns the content handed in
C8_NoCompletionFallsBack ==
    (sumPc = "settled" /\ sumResponse.kind = "response"
        /\ sumResponse.ok)
        => IF HasFirstChoiceText(sumResponse)
           THEN sumResult.value = FirstChoiceText(sumResponse)
           ELSE sumResult.value = Str(sumContent) /\ Len(sumResult.notices) = 1

\* C9: without a key the call shows the warning, returns the content handed
\* in and sends no request
C9_NoKeyNoRequest ==
    (sumPc = "settled" /\ sumKey = <<>>)
        => /\ sumResult.notices = <<NoKeyNotice>>
           /\ sumResult.value = Str(sumContent)
           /\ ~sumResult.raised
           /\ sumFetches = 0

C9_Witness ==
    sumPc = "settled" /\ sumKey = <<>> /\ sumResult.notices = <<NoKeyNotice>>

(***************************************************************************)
(* The vault and the three recap operations.  The vault is the sequence of  *)
(* its files, in the order vault.getFiles() lists them; a created file is   *)
(* listed last.  Each running operation is a call record; a call runs       *)
(* without interruption from one await to the next.                         *)
(***************************************************************************)
PathIndex(v, path) ==
    LET hits == {i \in 1..Len(v) : v[i].path = path}
    IN  IF hits = {} THEN 0 ELSE Min(hits)

\* vault.getAbstractFileByPath(path) instanceof TFile
IsTFile(v, path) == PathIndex(v, path) # 0

\* vault.read(file)
ReadFile(v, path) == v[PathIndex(v, path)].data

\* a write that adds to the file instead of replacing its content
ModifyAppends(v, path, data) ==
    [v EXCEPT ![PathIndex(v, path)].data = @ \o data]

\* vault.modify(file, data)
Modify(v, path, data) == [v EXCEPT ![PathIndex(v, path)].data = data]

\* a create that makes the file and leaves it empty
CreateEmpty(v, path, data) == Append(v, [path |-> path, data |-> <<>>])

\* vault.create(path, data), for a path that names no file
Create(v, path, data) == Append(v, [path |-> path, data |-> data])

\* vault.getFiles()
getFiles(v) == [i \in 1..Len(v) |-> v[i].path]

\* file.path.startsWith(folder) && file.extension === 'md'
IsNoteIn(folder, path) ==
    StartsAt(path, 1, folder) /\ FileExtension(path) = <<"m", "d">>

NotesIn(v, folder) == SelectSeq(getFiles(v), LAMBDA path : IsNoteIn(folder, path))

\* s.split('-')
RECURSIVE SplitDash(_)
SplitDash(s) ==
    LET j == IndexOf(s, <<"-">>, 1)
    IN  IF j = 0 THEN <<s>>
        ELSE <<SubSeq(s, 1, j - 1)>> \o SplitDash(SubSeq(s, j + 1, Len(s)))

\* a digest named for the first day of its month
MonthlyOutputPathDated(s, yearMonth) ==
    s.outputFolder \o <<"/">> \o yearMonth \o <<"-", "0", "1">> \o MdSuffix

\* `${this.settings.outputFolder}/${year}-${month}.md`
MonthlyOutputPath(s, yearMonth) ==
    LET parts == SplitDash(yearMonth)
    IN  s.outputFolder \o <<"/">> \o parts[1] \o <<"-">> \o parts[2] \o MdSuffix

\* `${this.settings.weeklyOutputFolder}/${year}-W${weekNumber...padStart(2, '0')}.md`
WeeklyOutputPath(s, weekStart, zone) ==
    LET weekStartDate == NewDateFromToken(weekStart)
        year          == getFullYear(weekStartDate, zone)
        weekNumber    == getWeek(weekStartDate, zone)
    IN  s.weeklyOutputFolder \o <<"/">> \o DecimalDigits(year) \o <<"-", "W">>
            \o PadStart(DecimalDigits(weekNumber), 2) \o MdSuffix

\* new Date(now.getTime() - 7 * 24 * 60 * 60 * 1000)
PreviousWeekDate(clock) == DateAt(clock - 7 * 24)

\* a summary named as the weekly recap names its digest: by the year and the
\* week number of the week's Sunday
SummaryOutputPathOfSunday(s, clock, zone) ==
    LET sunday == startOfWeek(PreviousWeekDate(clock), zone)
    IN  s.gptOutputFolder \o <<"/">> \o DecimalDigits(getFullYear(sunday, zone))
            \o <<"-", "W">> \o PadStart(DecimalDigits(getWeek(sunday, zone)), 2)
            \o <<" ", "S", "u", "m", "m", "a", "r", "y">> \o MdSuffix

\* `${outputFolder}/${previousWeekYear}-W${String(previousWeek).padStart(2, '0')} Summary.md`
SummaryOutputPath(s, clock, zone) ==
    s.gptOutputFolder \o <<"/">> \o DecimalDigits(getFullYear(PreviousWeekDate(clock), zone))
        \o <<"-", "W">> \o PadStart(DecimalDigits(getWeek(PreviousWeekDate(clock), zone)), 2)
        \o <<" ", "S", "u", "m", "m", "a", "r", "y">> \o MdSuffix

\* the order name.localeCompare gives the characters of the model's names
CollationOrder ==
    <<" ", "-", ".", "/", "0", "1", "2", "3", "4", "5", "6", "7", "8", "9",
      "a", "d", "D", "m", "M", "o", "S", "t", "W">>

CharRank(c) == CHOOSE k \in 1..Len(CollationOrder) : CollationOrder[k] = c

\* a.localeCompare(b) < 0
RECURSIVE ComesBefore(_, _)
ComesBefore(a, b) ==
    IF b = <<>> THEN FALSE
    ELSE IF a = <<>> THEN TRUE
    ELSE IF Head(a) = Head(b) THEN ComesBefore(Tail(a), Tail(b))
    ELSE CharRank(Head(a)) < CharRank(Head(b))

\* inputFiles.sort((a, b) => a.name.localeCompare(b.name)): a stable sort
RECURSIVE InsertByName(_, _)
InsertByName(sorted, file) ==
    IF sorted = <<>> THEN <<file>>
    ELSE IF ComesBefore(FileName(file), FileName(Head(sorted)))
    THEN <<file>> \o sorted
    ELSE <<Head(sorted)>> \o InsertByName(Tail(sorted), file)

RECURSIVE SortByName(_)
SortByName(files) ==
    IF files = <<>> THEN <<>>
    ELSE InsertByName(SortByName(SubSeq(files, 1, Len(files) - 1)), files[Len(files)])

\* a test that also takes every file named as a weekly digest, YYYY-Wnn
IsOfPreviousWeekOrDigest(file, clock, zone) ==
    LET name == FileName(file)
    IN  \/ Len(name) >= 8 /\ SubSeq(name, 5, 6) = <<"-", "W">>
        \/ /\ MatchesDateToken(name)
           /\ LET fileDate == NewDateFromToken(SubSeq(name, 1, 10))
              IN  /\ fileDate.valid
                  /\ getFullYear(fileDate, zone) = getFullYear(PreviousWeekDate(clock), zone)
                  /\ getWeek(fileDate, zone) = getWeek(PreviousWeekDate(clock), zone)

\* getDateFromFileName(file.name), then the test of the file's year and week
\* against the previous week's; an invalid Date has neither
IsOfPreviousWeek(file, clock, zone) ==
    LET name == FileName(file)
    IN  /\ MatchesDateToken(name)
        /\ LET fileDate == NewDateFromToken(SubSeq(name, 1, 10))
           IN  /\ fileDate.valid
               /\ getFullYear(fileDate, zone) = getFullYear(PreviousWeekDate(clock), zone)
               /\ getWeek(fileDate, zone) = getWeek(PreviousWeekDate(clock), zone)

MonthlyNotice   == [text |-> "Monthly recap generated successfully!"]
WeeklyNotice    == [text |-> "Weekly recaps generated successfully!"]
SummariesNotice == [text |-> "GPT weekly summary generated successfully!"]

SuccessNotice(op) ==
    CASE op = "monthly" -> MonthlyNotice
      [] op = "weekly" -> WeeklyNotice
      [] op = "summaries" -> SummariesNotice

NewLines == <<"\n", "\n">>

\* the output path of the bucket a call is at
OutputPathOf(c) ==
    CASE c.op = "monthly" -> MonthlyOutputPath(settings, c.groups[c.gi].key)
      [] c.op = "weekly" -> WeeklyOutputPath(settings, c.groups[c.gi].key, hostTz)
      [] c.op = "summaries" -> SummaryOutputPath(settings, now, hostTz)

\* a call as it starts on the buckets in groups
NewCall(op, groups) ==
    [op |-> op, pc |-> "read", groups |-> groups, gi |-> 1, fi |-> 1,
     recap |-> <<>>, path |-> <<>>, mode |-> "none", fetching |-> FALSE,
     error |-> "", given |-> "string",
     notices |-> <<>>, fetches |-> 0, writes |-> <<>>,
     startEdits |-> edits, endEdits |-> edits,
     before |-> {i \in 1..Len(calls) : calls[i].pc \in {"done", "failed"}},
     callsAtEnd |-> 0, vaultAtEnd |-> <<>>]

\* a failure that is caught, the call going on to its closing notice
FailCaught(c, message) ==
    [c EXCEPT !.pc = "done", !.error = message,
              !.notices = Append(@, SuccessNotice(c.op))]

\* the call ends by throwing: nothing catches it and no notice is shown
Fail(c, message) == [c EXCEPT !.pc = "failed", !.error = message]

FileExists == "File already exists."
RangeError == "Invalid time value"
IoError    == "file store failure"
TypeError  == "The data argument must be of type string"

\* the call reaches its closing `new Notice(...)`
Finish(c, v, ncalls) ==
    [c EXCEPT !.pc = "done", !.notices = Append(@, SuccessNotice(c.op)),
              !.endEdits = edits, !.callsAtEnd = ncalls, !.vaultAtEnd = v]

\* getAbstractFileByPath, then the call of vault.modify or vault.create, up
\* to its await; generateGPTSummaries calls vault.create whatever is there,
\* and vault.create throws at once when the path names a file
IssueWrite(c, v) ==
    LET path == OutputPathOf(c)
    IN  IF c.op = "summaries"
        THEN IF IsTFile(v, path) THEN Fail(c, FileExists)
             ELSE [c EXCEPT !.pc = "write", !.path = path, !.mode = "create"]
        ELSE [c EXCEPT !.pc = "write", !.path = path,
                       !.mode = IF IsTFile(v, path) THEN "modify" ELSE "create"]

\* the call of generateGPTSummary(recapContent), up to its await
EnterSummary(c) ==
    LET r == BeforeFetch(settings.gptApiKey, c.recap)
    IN  [c EXCEPT !.pc = "summary",
                  !.fetching = (r.fetches = 1),
                  !.fetches = @ + r.fetches,
                  !.notices = IF r.fetches = 0 THEN @ \o r.notices ELSE @]

\* a read loop after which every recap goes to the summary when
\* summarization is on
AfterReadsAlways(c, v) ==
    IF c.op = "summaries" \/ settings.useGPTSummary
    THEN EnterSummary(c)
    ELSE IssueWrite(c, v)

\* a bucket's files are read: on to the summary or to the write
AfterReads(c, v) ==
    IF c.op = "summaries" \/ (c.op = "weekly" /\ settings.useGPTSummary)
    THEN EnterSummary(c)
    ELSE IssueWrite(c, v)

\* a bucket is written: on to the next bucket's first read, or to the end
AfterWrite(c, v, ncalls) ==
    IF c.gi < Len(c.groups)
    THEN [c EXCEPT !.pc = "read", !.gi = @ + 1, !.fi = 1, !.recap = <<>>]
    ELSE Finish(c, v, ncalls)

\* a call that has no bucket ends at once
Begin(op, groups, v, ncalls) ==
    IF groups = <<>> THEN Finish(NewCall(op, groups), v, ncalls)
    ELSE NewCall(op, groups)

(***************************************************************************)
(* The plugin's commands on a bounded vault.                                *)
(***************************************************************************)
MaxNotes    == 2
MaxCalls    == 2
MaxEdits    == 1
MaxFailures == 1

FolderD == <<"D">>

Note(name, data) == [path |-> NotePath(FolderD, name), data |-> data]

NotePool ==
    { Note(DateToken(2024, 1, 5) \o MdSuffix, FrontmatterBlock \o <<"b">>),
      Note(DateToken(2024, 1, 20) \o MdSuffix, <<"c", "\n">>),
      Note(DateToken(2023, 12, 31) \o MdSuffix,
           DailiesHeading \o <<"\n">> \o ChecklistLine \o <<"d">>),
      Note(<<"t", "o", "d", "o">> \o MdSuffix, <<"x">>) }

\* what an edit leaves in a note
EditedText == <<" ", "e", "\n">>

Vaults ==
    {v \in UNION {[1..n -> NotePool] : n \in 0..MaxNotes} :
        \A i, j \in 1..Len(v) : i # j => v[i] # v[j]}

FolderLayouts ==
    { [inputFolder |-> FolderD, outputFolder |-> <<"M">>,
       weeklyInputFolder |-> FolderD, weeklyOutputFolder |-> <<"W">>,
       gptInputFolder |-> <<"W">>, gptOutputFolder |-> <<"G">>],
      [inputFolder |-> FolderD, outputFolder |-> <<"D", "/", "M">>,
       weeklyInputFolder |-> FolderD, weeklyOutputFolder |-> FolderD,
       gptInputFolder |-> FolderD, gptOutputFolder |-> <<"D", "/", "G">>] }

\* summarization off, on without a key, on with a key
GptChoices ==
    { [use |-> FALSE, key |-> <<>>],
      [use |-> TRUE, key |-> <<>>],
      [use |-> TRUE, key |-> <<"k">>] }

SettingsChoices ==
    {[inputFolder |-> l.inputFolder, outputFolder |-> l.outputFolder,
      weeklyInputFolder |-> l.weeklyInputFolder,
      weeklyOutputFolder |-> l.weeklyOutputFolder,
      gptInputFolder |-> l.gptInputFolder, gptOutputFolder |-> l.gptOutputFolder,
      useGPTSummary |-> gpt.use, gptApiKey |-> gpt.key] :
        l \in FolderLayouts, gpt \in GptChoices}

\* the host offsets the commands are run under
HostOffsets == {-5, 0}

\* the instants the commands are run at: 2024-01-10T12:00Z
Clocks == {24 * DaysFromCivil(2024, 1, 10) + 12}

\* what a fetch of a running recap settles with
MachineResponses ==
    { Response(FALSE, Obj([error |-> Obj([message |-> Str(<<"m">>)])])),
      Response(TRUE, Obj([choices |-> Arr(<<Choice(Str(SummaryText))>>)])) }

Init ==
    /\ vault \in Vaults
    /\ settings \in SettingsChoices
    /\ hostTz \in HostOffsets
    /\ now \in Clocks
    /\ calls = <<>>
    /\ edits = 0
    /\ failures = 0
    /\ CleanAtRest
    /\ GroupAtRest
    /\ SummaryAtRest
    /\ AutoAtRest

atRest == <<cleanVars, grpVars, sumVars, autoVars>>

\* the command or ribbon icon: generateMonthlyRecap() up to its first await
StartMonthly ==
    /\ Len(calls) < MaxCalls
    /\ LET files == NotesIn(vault, settings.inputFolder)
           g     == groupNotesByYearAndMonth(files)
       IN  calls' = Append(calls, Begin("monthly", g.grouped, vault, Len(calls) + 1))
    /\ UNCHANGED <<vault, settings, hostTz, now, edits, failures, atRest>>

\* the command: generateWeeklyRecap() up to its first await
StartWeekly ==
    /\ Len(calls) < MaxCalls
    /\ LET files == NotesIn(vault, settings.weeklyInputFolder)
           g     == groupNotesByWeek(files, hostTz)
       IN  calls' = Append(calls,
                      IF g.status = "threw" THEN Fail(NewCall("weekly", <<>>), RangeError)
                      ELSE Begin("weekly", g.grouped, vault, Len(calls) + 1))
    /\ UNCHANGED <<vault, settings, hostTz, now, edits, failures, atRest>>

\* the command: generateGPTSummaries() up to its first await
StartSummaries ==
    /\ Len(calls) < MaxCalls
    /\ LET inputFiles == SortByName(NotesIn(vault, settings.gptInputFolder))
           chosen     == SelectSeq(inputFiles, LAMBDA f : IsOfPreviousWeek(f, now, hostTz))
           groups     == IF chosen = <<>> THEN <<>>
                         ELSE <<[key |-> <<>>, files |-> chosen]>>
       IN  calls' = Append(calls, Begin("summaries", groups, vault, Len(calls) + 1))
    /\ UNCHANGED <<vault, settings, hostTz, now, edits, failures, atRest>>

\* await vault.read(file) resumes
ReadDone(i) ==
    /\ calls[i].pc = "read"
    /\ LET c       == calls[i]
           files   == c.groups[c.gi].files
           content == ReadFile(vault, files[c.fi])
           piece   == IF c.op = "summaries" THEN content ELSE cleanFileContent(content)
           read    == [c EXCEPT !.recap = @ \o piece \o NewLines]
       IN  calls' = [calls EXCEPT ![i] =
                        IF c.fi < Len(files) THEN [read EXCEPT !.fi = @ + 1]
                        ELSE AfterReads(read, vault)]
    /\ UNCHANGED <<vault, settings, hostTz, now, edits, failures, atRest>>

\* the text a value that is no string stands for: String(undefined), String(null)
TextOf(value) ==
    CASE value.t = "string" -> value.v
      [] value.t = "undefined" -> <<"u", "n", "d", "e", "f", "i", "n", "e", "d">>
      [] value.t = "null" -> <<"n", "u", "l", "l">>

\* recapContent = await this.generateGPTSummary(recapContent) resumes, the
\* fetch having settled with one of responses
SummarySettles(i, responses) ==
    /\ calls[i].pc = "summary"
    /\ LET c == calls[i]
       IN  IF c.fetching
           THEN \E r \in responses :
                  LET out == AfterFetch("part_000", c.recap, r)
                  IN  calls' = [calls EXCEPT ![i] =
                         IssueWrite([c EXCEPT !.recap = TextOf(out.value),
                                              !.given = out.value.t,
                                              !.fetching = FALSE,
                                              !.notices = @ \o out.notices], vault)]
           ELSE calls' = [calls EXCEPT ![i] = IssueWrite(c, vault)]
    /\ UNCHANGED <<vault, settings, hostTz, now, edits, failures, atRest>>

\* await this.generateGPTSummary(...) resumes
SummaryDone(i) == SummarySettles(i, MachineResponses)

\* await vault.modify / vault.create resumes, the file written
WriteDone(i) ==
    /\ calls[i].pc = "write"
    /\ LET c == calls[i]
       IN  /\ vault' = IF IsTFile(vault, c.path) THEN Modify(vault, c.path, c.recap)
                       ELSE Create(vault, c.path, c.recap)
           /\ calls' = [calls EXCEPT ![i] =
                  AfterWrite([c EXCEPT !.writes = Append(@, [path |-> c.path, data |-> c.recap])],
                             vault', Len(calls))]
    /\ UNCHANGED <<settings, hostTz, now, edits, failures, atRest>>

\* vault.create resumes by throwing: another call has made the file since
\* this call looked
CreateCollides(i) ==
    /\ calls[i].pc = "write"
    /\ calls[i].mode = "create"
    /\ IsTFile(vault, calls[i].path)
    /\ calls' = [calls EXCEPT ![i] = Fail(@, FileExists)]
    /\ UNCHANGED <<vault, settings, hostTz, now, edits, failures, atRest>>

\* vault.modify / vault.create handed a value that is no string: the file
\* store either writes the text the value stands for (WriteDone) or throws
WriteRejects(i) ==
    /\ calls[i].pc = "write"
    /\ calls[i].given # "string"
    /\ calls' = [calls EXCEPT ![i] = Fail(@, TypeError)]
    /\ UNCHANGED <<vault, settings, hostTz, now, edits, failures, atRest>>

\* the file store fails a read or a write
IoFails(i) ==
    /\ calls[i].pc \in {"read", "write"}
    /\ failures < MaxFailures
    /\ failures' = failures + 1
    /\ calls' = [calls EXCEPT ![i] = Fail(@, IoError)]
    /\ UNCHANGED <<vault, settings, hostTz, now, edits, atRest>>

\* the user edits a note
EditNote ==
    /\ edits < MaxEdits
    /\ \E k \in 1..Len(vault) :
         /\ \E n \in NotePool : n.path = vault[k].path
         /\ vault[k].data # EditedText
         /\ vault' = [vault EXCEPT ![k].data = EditedText]
    /\ edits' = edits + 1
    /\ UNCHANGED <<settings, hostTz, now, calls, failures, atRest>>

Next ==
    \/ StartMonthly
    \/ StartWeekly
    \/ StartSummaries
    \/ \E i \in 1..Len(calls) : ReadDone(i)
    \/ \E i \in 1..Len(calls) : SummaryDone(i)
    \/ \E i \in 1..Len(calls) : WriteDone(i)
    \/ \E i \in 1..Len(calls) : CreateCollides(i)
    \/ \E i \in 1..Len(calls) : IoFails(i)
    \/ EditNote

Spec == Init /\ [][Next]_vars

(***************************************************************************)
(* generateWeeklyRecap alone, on notes of the turn of the years 2023 and   *)
(* 2024, the fetch settling with any response.                             *)
(***************************************************************************)
WeeklyPool ==
    { Note(DateToken(2023, 1, 3) \o MdSuffix, <<"a">>),
      Note(DateToken(2023, 12, 31) \o MdSuffix, <<"d">>),
      Note(DateToken(2024, 1, 5) \o MdSuffix, FrontmatterBlock \o <<"b">>),
      Note(DateToken(2024, 1, 20) \o MdSuffix, <<"c", "\n">>) }

WeeklyVaults ==
    {v \in UNION {[1..n -> WeeklyPool] : n \in 0..MaxNotes} :
        \A i, j \in 1..Len(v) : i # j => v[i] # v[j]}

WeeklyInit ==
    /\ vault \in WeeklyVaults
    /\ settings \in SettingsChoices
    /\ hostTz \in HostOffsets
    /\ now \in Clocks
    /\ calls = <<>>
    /\ edits = 0
    /\ failures = 0
    /\ CleanAtRest
    /\ GroupAtRest
    /\ SummaryAtRest
    /\ AutoAtRest

\* one run of the command
RunWeekly == calls = <<>> /\ StartWeekly

WeeklyNext ==
    \/ RunWeekly
    \/ \E i \in 1..Len(calls) : ReadDone(i)
    \/ \E i \in 1..Len(calls) : SummarySettles(i, Responses("part_000"))
    \/ \E i \in 1..Len(calls) : WriteDone(i)
    \/ \E i \in 1..Len(calls) : WriteRejects(i)
    \/ \E i \in 1..Len(calls) : IoFails(i)

SpecWeekly == WeeklyInit /\ [][WeeklyNext]_vars

Range(seq) == {seq[k] : k \in 1..Len(seq)}

Ended(c) == c.pc \in {"done", "failed"}

\* calls i and i+1 run one after the other with nothing else going on: every
\* earlier call had ended when i started, i had ended when i+1 started, no
\* call started before i+1 ended, and no note was edited from the start of i
\* to the end of i+1
InSuccession(i) ==
    /\ i + 1 <= Len(calls)
    /\ calls[i].pc = "done"
    /\ calls[i + 1].pc = "done"
    /\ calls[i].before = 1..(i - 1)
    /\ calls[i + 1].before = 1..i
    /\ calls[i + 1].callsAtEnd = i + 1
    /\ calls[i].startEdits = calls[i + 1].endEdits

WrittenPaths(c) == {c.writes[k].path : k \in 1..Len(c.writes)}

\* C1: after two monthly recaps in succession every digest holds what it
\* held after the first
C1_MonthlyIdempotent ==
    \A i \in 1..Len(calls) :
        (InSuccession(i) /\ calls[i].op = "monthly" /\ calls[i + 1].op = "monthly") =>
            \A path \in WrittenPaths(calls[i]) \cup WrittenPaths(calls[i + 1]) :
                /\ IsTFile(calls[i].vaultAtEnd, path)
                /\ IsTFile(calls[i + 1].vaultAtEnd, path)
                /\ ReadFile(calls[i + 1].vaultAtEnd, path) = ReadFile(calls[i].vaultAtEnd, path)

\* two monthly recaps in succession, the output folder under the input
\* folder, each writing two digests
C1_Witness ==
    /\ InSuccession(1)
    /\ calls[1].op = "monthly"
    /\ calls[2].op = "monthly"
    /\ StartsAt(settings.outputFolder, 1, settings.inputFolder)
    /\ Len(calls[1].writes) = 2
    /\ Len(calls[2].writes) = 2

\* C5: when the write of a monthly or weekly bucket completes, the file at
\* the bucket's output path holds exactly the call's digest content, and no
\* other file has changed
C5_WriteReplaces ==
    [][\A i \in 1..Len(calls) :
          (/\ calls[i].op \in {"monthly", "weekly"}
           /\ calls[i].pc = "write"
           /\ Len(calls'[i].writes) = Len(calls[i].writes) + 1)
          => /\ IsTFile(vault', calls[i].path)
             /\ ReadFile(vault', calls[i].path) = calls[i].recap
             /\ \A k \in 1..Len(vault) :
                  vault[k].path # calls[i].path => vault'[k] = vault[k]
             /\ Len(vault') = IF IsTFile(vault, calls[i].path) THEN Len(vault)
                              ELSE Len(vault) + 1]_vars

\* a digest made by one call has been replaced by a later call's different
\* content, and another digest has been created
C5_Witness ==
    \E i, j \in 1..Len(calls) :
        /\ i \in calls[j].before
        /\ calls[j].op \in {"monthly", "weekly"}
        /\ \E a \in 1..Len(calls[i].writes), b \in 1..Len(calls[j].writes) :
             /\ calls[i].writes[a].path = calls[j].writes[b].path
             /\ calls[i].writes[a].data # calls[j].writes[b].data
             /\ ReadFile(vault, calls[j].writes[b].path) = calls[j].writes[b].data

\* C6: a summary operation that runs after every earlier call has ended, with
\* no call started since, never ends on "File already exists.": a summary
\* that is there is overwritten
C6_SummaryReplaces ==
    \A i \in 1..Len(calls) :
        (calls[i].op = "summaries" /\ calls[i].before = 1..(i - 1) /\ Len(calls) = i)
            => calls[i].error # FileExists

\* the notes of the input folder whose names start with a date, in vault order
EligibleNotes(v, folder) ==
    SelectSeq(getFiles(v), LAMBDA path : IsNoteIn(folder, path) /\ HasValidDateToken(path))

MonthOf(path) == SubSeq(FileName(path), 1, 7)

\* the cleaned content of each note of a month, each followed by two newlines
RECURSIVE ExpectedDigest(_, _, _)
ExpectedDigest(v, notes, month) ==
    IF notes = <<>> THEN <<>>
    ELSE (IF MonthOf(Head(notes)) = month
          THEN cleanFileContent(ReadFile(v, Head(notes))) \o <<"\n", "\n">>
          ELSE <<>>) \o ExpectedDigest(v, Tail(notes), month)

\* C10: a monthly recap writes one file per month that has a note, at
\* outputFolder/YYYY-MM.md, holding the month's cleaned notes in vault order
C10_MonthlyDigests ==
    \A i \in 1..Len(calls) :
        LET c      == calls[i]
            notes  == EligibleNotes(c.vaultAtEnd, settings.inputFolder)
            months == {MonthOf(notes[k]) : k \in 1..Len(notes)}
        IN  (c.op = "monthly" /\ c.pc = "done" /\ c.startEdits = c.endEdits) =>
                /\ Len(c.writes) = Cardinality(months)
                /\ \A m \in months :
                     \E k \in 1..Len(c.writes) :
                        c.writes[k] =
                            [path |-> settings.outputFolder \o <<"/">> \o m \o MdSuffix,
                             data |-> ExpectedDigest(c.vaultAtEnd, notes, m)]

\* the notes 2024-01-20 and 2024-01-05, in that order, gave the one file 2024-01.md
C10_Witness ==
    /\ Len(calls) >= 1
    /\ calls[1].op = "monthly"
    /\ calls[1].pc = "done"
    /\ Len(calls[1].writes) = 1
    /\ calls[1].writes[1].path = <<"M", "/">> \o MonthOf(DateToken(2024, 1, 20)) \o MdSuffix
    /\ Len(calls[1].writes[1].data) = 6
    /\ Len(calls[1].groups[1].files) = 2
    /\ FileName(calls[1].groups[1].files[1]) = DateToken(2024, 1, 20) \o MdSuffix

\* C12: no two calls are at the write of the same output path at once
C12_NoConcurrentWrites ==
    \A i, j \in 1..Len(calls) :
        (i # j /\ calls[i].pc = "write" /\ calls[j].pc = "write")
            => calls[i].path # calls[j].path

\* C13: a call that has ended has shown exactly one notice, the success
\* notice if it succeeded
C13_OneNotice ==
    \A i \in 1..Len(calls) :
        Ended(calls[i]) =>
            /\ Len(calls[i].notices) = 1
            /\ calls[i].pc = "done" => calls[i].notices = <<SuccessNotice(calls[i].op)>>

\* the day number of the date a file is named for
NamedDay(path) ==
    LET name == FileName(path)
    IN  DaysFromCivil(ParseInt(name, 1, 4), ParseInt(name, 6, 7), 1) + ParseInt(name, 9, 10) - 1

\* the host's calendar day at an hour of the clock
Today(clock) == (clock + hostTz) \div 24

\* the day lies in the Sunday-to-Saturday week before the one of today
InPrecedingWeek(day, today) ==
    LET sunday == today - ((today + 4) % 7)
    IN  day \in (sunday - 7)..(sunday - 1)

ChosenFiles(c) == IF c.groups = <<>> THEN {} ELSE Range(c.groups[1].files)

\* C14: on a host whose clock is UTC, a summary call takes a date-named note
\* of the summary input folder exactly when the date of its name lies in the
\* week before the current one
C14_PrecedingWeek ==
    \A i \in 1..Len(calls) :
        (calls[i].op = "summaries" /\ hostTz = 0) =>
            \A path \in Range(getFiles(vault)) :
                (IsNoteIn(settings.gptInputFolder, path) /\ HasValidDateToken(path)) =>
                    (path \in ChosenFiles(calls[i]))
                        = InPrecedingWeek(NamedDay(path), Today(now))

\* C17: no monthly or weekly call ends on "File already exists.", whatever
\* other call it overlaps
C17_LastWriterWins ==
    \A i \in 1..Len(calls) :
        calls[i].op \in {"monthly", "weekly"} => calls[i].error # FileExists

\* C18: when the file store fails a read or a write of a monthly or weekly
\* call, the call ends failed at that step without a notice, the vault is
\* left as it is, and a failed call does nothing more
C18_FailurePropagates ==
    [][\A i \in 1..Len(calls) :
          /\ (/\ failures' = failures + 1
              /\ calls'[i] # calls[i]
              /\ calls[i].op \in {"monthly", "weekly"})
             => /\ calls'[i].pc = "failed"
                /\ calls'[i].notices = calls[i].notices
                /\ SuccessNotice(calls[i].op) \notin Range(calls'[i].notices)
                /\ calls'[i].writes = calls[i].writes
                /\ vault' = vault
          /\ calls[i].pc = "failed" => calls'[i] = calls[i]]_vars

\* a monthly or weekly call has failed on the file store after writing a
\* digest, and the digest is there with the content the call wrote
C18_Witness ==
    \E i \in 1..Len(calls) :
        /\ calls[i].op \in {"monthly", "weekly"}
        /\ calls[i].pc = "failed"
        /\ calls[i].error = IoError
        /\ calls[i].notices = <<>>
        /\ Len(calls[i].writes) = 1
        /\ Len(calls[i].groups) = 2
        /\ ReadFile(vault, calls[i].writes[1].path) = calls[i].writes[1].data

\* C16: in a weekly run with summarization on, whatever the fetch settles
\* with, the content handed to a bucket's write is a text and the run does
\* not end on the write refusing it
C16_WriteAfterAnyOutcome ==
    \A i \in 1..Len(calls) :
        (calls[i].op = "weekly" /\ settings.useGPTSummary) =>
            /\ calls[i].given = "string"
            /\ calls[i].error # TypeError

\* C19: the writes of one weekly run go to pairwise distinct paths
C19_DistinctWeekPaths ==
    \A i \in 1..Len(calls) :
        calls[i].op = "weekly" =>
            \A a, b \in 1..Len(calls[i].writes) :
                a # b => calls[i].writes[a].path # calls[i].writes[b].path

\* the year and week label a digest or summary is named by: YYYY-Wnn
Label(path) == SubSeq(FileName(path), 1, 8)

\* the key groupNotesByWeek gives the week before the current one
PrecedingWeekKey == format(startOfWeek(PreviousWeekDate(now), hostTz), hostTz)

\* C23: the digest a weekly run writes for the week before the current one
\* and the summary a summary run writes for that week carry different labels
C23_LabelsDiffer ==
    \A i, j \in 1..Len(calls) :
        (calls[i].op = "weekly" /\ calls[j].op = "summaries") =>
            \A a \in 1..Len(calls[i].writes), b \in 1..Len(calls[j].writes) :
                calls[i].groups[a].key = PrecedingWeekKey =>
                    Label(calls[i].writes[a].path) # Label(calls[j].writes[b].path)

\* on 2024-01-10 the week of Sunday 2023-12-31 has been written as 2023-W01
\* by a weekly run and as 2024-W01 by a summary run
C23_Witness ==
    /\ hostTz = 0
    /\ PrecedingWeekKey = DateToken(2023, 12, 31)
    /\ \E i, j \in 1..Len(calls) :
         /\ calls[i].op = "weekly"
         /\ calls[j].op = "summaries"
         /\ \E a \in 1..Len(calls[i].writes) :
              /\ calls[i].groups[a].key = PrecedingWeekKey
              /\ Label(calls[i].writes[a].path) = <<"2", "0", "2", "3", "-", "W", "0", "1">>
         /\ Len(calls[j].writes) = 1
         /\ Label(calls[j].writes[1].path) = <<"2", "0", "2", "4", "-", "W", "0", "1">>

\* C24: a monthly run sends no request; a weekly run sends none with
\* summarization off and at most one for each bucket it has reached; a
\* summary run sends at most one; none is sent without a key
C24_RequestsBounded ==
    \A i \in 1..Len(calls) :
        LET c == calls[i]
        IN  /\ c.op = "monthly" => c.fetches = 0
            /\ c.op = "weekly" =>
                 /\ c.fetches <= Len(c.groups)
                 /\ c.fetches <= Len(c.writes) + 1
                 /\ ~settings.useGPTSummary => c.fetches = 0
            /\ c.op = "summaries" => c.fetches <= 1
            /\ settings.gptApiKey = <<>> => c.fetches = 0

\* a weekly run of two buckets has ended after two requests, one of which
\* failed, and a monthly run with summarization on has ended after none
C24_Witness ==
    /\ settings.useGPTSummary
    /\ settings.gptApiKey # <<>>
    /\ \E i, j \in 1..Len(calls) :
         /\ calls[i].op = "weekly"
         /\ calls[i].pc = "done"
         /\ Len(calls[i].groups) = 2
         /\ calls[i].fetches = 2
         /\ Len(calls[i].notices) = 2
         /\ calls[j].op = "monthly"
         /\ calls[j].pc = "done"
         /\ Len(calls[j].writes) >= 1

\* C26: while no note has been edited by hand, every file whose name starts
\* with a date token is a note of the vault as it stood at first, with the
\* text it had then, and no file an operation has written has such a name
C26_NotesUntouched ==
    /\ edits = 0 =>
          \A k \in 1..Len(vault) :
              MatchesDateToken(FileName(vault[k].path)) => vault[k] \in NotePool
    /\ \A i \in 1..Len(calls) :
          \A a \in 1..Len(calls[i].writes) :
              ~MatchesDateToken(FileName(calls[i].writes[a].path))

\* with the weekly output folder the input folder itself and the other
\* output folders under it, a weekly run and a monthly run have written
\* their digests, and the notes hold what they held
C26_Witness ==
    /\ settings.weeklyOutputFolder = settings.weeklyInputFolder
    /\ edits = 0
    /\ Len(vault) = 4
    /\ \E n \in NotePool : vault[1] = n
    /\ \E n \in NotePool : vault[2] = n
    /\ \E i, j \in 1..Len(calls) :
         /\ calls[i].op = "weekly"
         /\ calls[i].pc = "done"
         /\ calls[j].op = "monthly"
         /\ calls[j].pc = "done"

\* no file of the folder has a name that starts with a date token
OnlyDigestsIn(folder) ==
    \A k \in 1..Len(vault) :
        IsNoteIn(folder, vault[k].path) => ~MatchesDateToken(FileName(vault[k].path))

\* C27: with the summary input folder the weekly output folder and no
\* date-named file in it, a summary run selects no file, sends no request,
\* writes no file and ends with its success notice
C27_DigestsNotSummarized ==
    \A i \in 1..Len(calls) :
        (/\ calls[i].op = "summaries"
         /\ settings.gptInputFolder = settings.weeklyOutputFolder
         /\ OnlyDigestsIn(settings.gptInputFolder))
        => /\ calls[i].groups = <<>>
           /\ calls[i].fetches = 0
           /\ calls[i].writes = <<>>
           /\ calls[i].pc = "done"
           /\ calls[i].notices = <<SummariesNotice>>

\* a weekly run has written a digest into the summary input folder, and a
\* summary run started after it has ended without a file or a request
C27_Witness ==
    /\ settings.gptInputFolder = settings.weeklyOutputFolder
    /\ OnlyDigestsIn(settings.gptInputFolder)
    /\ settings.gptApiKey # <<>>
    /\ \E i, j \in 1..Len(calls) :
         /\ calls[i].op = "weekly"
         /\ calls[i].pc = "done"
         /\ Len(calls[i].writes) >= 1
         /\ i \in calls[j].before
         /\ calls[j].op = "summaries"
         /\ calls[j].pc = "done"
         /\ calls[j].writes = <<>>

(***************************************************************************)
(* The cleaner applied to bounded texts.  A text is a concatenation of at  *)
(* most MaxChunks chunks.                                                  *)
(***************************************************************************)
MaxChunks == 4

Chunks ==
    { FrontmatterBlock,
      FrontmatterOpen,
      <<"\n">>,
      <<" ">>,
      <<"b">>,
      DailiesHeading \o <<"\n">>,
      DailyLawHeading \o <<"\n">>,
      ChecklistLine,
      FenceOpen,
      FenceClose,
      <<"#", " ", "D", "a", "i">>,
      <<"l", "i", "e", "s", "\n">> }

RECURSIVE Concat(_)
Concat(ss) == IF ss = <<>> THEN <<>> ELSE Head(ss) \o Concat(Tail(ss))

Texts == {Concat(cs) : cs \in UNION {[1..n -> Chunks] : n \in 0..MaxChunks}}

CleanInit ==
    /\ cleanIn \in Texts
    /\ cleanOut = <<>>
    /\ cleanPc = "start"
    /\ GroupAtRest
    /\ SummaryAtRest
    /\ MachineAtRest
    /\ AutoAtRest

\* cleaned = cleanFileContent(content)
CleanOnce ==
    /\ cleanPc = "start"
    /\ cleanOut' = <<cleanFileContent(cleanIn)>>
    /\ cleanPc' = "cleaned"
    /\ UNCHANGED <<cleanIn, grpVars, sumVars, machineVars, autoVars>>

\* cleanFileContent(cleaned)
CleanAgain ==
    /\ cleanPc = "cleaned"
    /\ cleanOut' = Append(cleanOut, cleanFileContent(cleanOut[1]))
    /\ cleanPc' = "recleaned"
    /\ UNCHANGED <<cleanIn, grpVars, sumVars, machineVars, autoVars>>

CleanNext == CleanOnce \/ CleanAgain

SpecClean == CleanInit /\ [][CleanNext]_vars

\* C4: cleaning a cleaned text changes nothing
C4_CleanIdempotent ==
    cleanPc = "recleaned" => cleanOut[2] = cleanOut[1]

(***************************************************************************)
(* The cleaner applied to notes of the daily-note layout: a frontmatter    *)
(* block, a blank line, the Dailies heading with its checklist, a blank    *)
(* line, a body.                                                           *)
(***************************************************************************)
MaxChecklist == 2

EmptyFrontmatter == FrontmatterOpen \o <<"-", "-", "-", "\n">>
Frontmatters == {FrontmatterBlock, EmptyFrontmatter}

OpenItem == <<"-", " ", "[", " ", "]", " ", "a", "\n">>
ChecklistLines == {ChecklistLine, OpenItem}
Checklists == UNION {[1..n -> ChecklistLines] : n \in 0..MaxChecklist}

\* bodies without frontmatter, Dailies or Daily Law heading, or fence
BodyText == <<"B", "o", "d", "y", " ", "t", "e", "x", "t", ".">>
Bodies ==
    { BodyText,
      <<>>,
      <<"b">>,
      <<" ", "b", " ", "\n">>,
      <<"a", "\n", "\n", "b">>,
      <<"#", " ", "b", "\n", "c">>,
      <<"-", " ", "[", " ", "]", " ", "k">>,
      <<"k", "\n", "-", " ", "[", "x", "]", " ", "t", "\n">> }

Shaped(frontmatter, checklist, body) ==
    frontmatter \o <<"\n">> \o DailiesHeading \o <<"\n">> \o Concat(checklist)
        \o <<"\n">> \o body

ShapedNotes ==
    {[text |-> Shaped(f, c, b), body |-> b] :
        f \in Frontmatters, c \in Checklists, b \in Bodies}

ShapedInit ==
    /\ cleanIn \in {n.text : n \in ShapedNotes}
    /\ cleanOut = <<>>
    /\ cleanPc = "start"
    /\ GroupAtRest
    /\ SummaryAtRest
    /\ MachineAtRest
    /\ AutoAtRest

SpecShaped == ShapedInit /\ [][CleanNext]_vars

\* C15: a note of the daily-note layout cleans to exactly its trimmed body
C15_ShapedCleansToBody ==
    cleanPc # "start" =>
        \A n \in ShapedNotes : n.text = cleanIn => cleanOut[1] = Trim(n.body)

(***************************************************************************)
(* The cleaner statement by statement, on texts that begin with a          *)
(* frontmatter delimiter and on texts that hold a heading line.            *)
(***************************************************************************)
Delimiter == <<"-", "-", "-">>

BlockContents == {<<>>, <<"t", "\n">>, <<"t", "\n", "\n", "u", "\n">>}
AfterBlock    == {<<>>, <<"b">>, <<"\n", "b", "\n">>, <<"x", "\n", "-", "-", "-", "\n", "b">>}
Unterminated  == {<<"t">>, <<"t", "\n">>, <<"t", "\n", "-", "-", "\n", "b">>}

\* texts that begin with a delimiter line, with what the first statement is
\* to leave of them: a closed block (the closing line ended by a newline, or
\* the last line of the text), and a block that is never closed
FrontNotes ==
    {[text |-> FrontmatterOpen \o c \o Delimiter \o <<"\n">> \o r, expected |-> r] :
        c \in BlockContents, r \in AfterBlock}
    \cup {[text |-> FrontmatterOpen \o c \o Delimiter, expected |-> <<>>] :
            c \in BlockContents}
    \cup {[text |-> FrontmatterOpen \o u, expected |-> FrontmatterOpen \o u] :
            u \in Unterminated}

Headings  == {DailiesHeading, DailyLawHeading}
BeforeHeading == {<<>>, <<"a", "\n">>}
\* what follows a heading line and is no checklist line
NoChecklist ==
    { <<>>,
      <<"b">>,
      <<"b", "\n">> \o ChecklistLine,
      <<"\n", "b">>,
      <<"\n">> \o ChecklistLine \o <<"b">> }
\* what ends a run of checklist lines
AfterRun == {<<>>, <<"b">>, <<"\n", "b">>, <<"\n">> \o OpenItem}
Runs == Checklists \ {<<>>}

\* texts that hold one heading line, with what the block statements are to
\* leave of them
HeadingNotes ==
    {[text |-> p \o h \o <<"\n">> \o f, expected |-> p \o f] :
        p \in BeforeHeading, h \in Headings, f \in NoChecklist}
    \cup {[text |-> p \o h \o <<"\n">> \o Concat(run) \o f, expected |-> p \o f] :
            p \in BeforeHeading, h \in Headings, run \in Runs, f \in AfterRun}

StepsInit ==
    /\ cleanIn \in {n.text : n \in FrontNotes \cup HeadingNotes}
    /\ cleanOut = <<>>
    /\ cleanPc = "start"
    /\ GroupAtRest
    /\ SummaryAtRest
    /\ MachineAtRest
    /\ AutoAtRest

\* content = content.replace(/^---\n[\s\S]*?\n---\n/, '')
StepFrontmatter ==
    /\ cleanPc = "start"
    /\ cleanOut' = <<StripFrontmatter(cleanIn)>>
    /\ cleanPc' = "frontmatter"
    /\ UNCHANGED <<cleanIn, grpVars, sumVars, machineVars, autoVars>>

\* content = content.replace(/# Dailies\s*\n(?:- \[[ x]\] .*\n?)*/g, '')
StepDailies ==
    /\ cleanPc = "frontmatter"
    /\ cleanOut' = Append(cleanOut, StripDailies(cleanOut[1]))
    /\ cleanPc' = "dailies"
    /\ UNCHANGED <<cleanIn, grpVars, sumVars, machineVars, autoVars>>

\* content = content.replace(/(fence)calendar-nav[\s\S]*?(fence)/g, '')
StepFence ==
    /\ cleanPc = "dailies"
    /\ cleanOut' = Append(cleanOut, StripFence(cleanOut[2]))
    /\ cleanPc' = "fence"
    /\ UNCHANGED <<cleanIn, grpVars, sumVars, machineVars, autoVars>>

\* content = content.replace(/# Daily Law\s*\n(?:- \[[ x]\] .*\n?)*/g, '')
StepDailyLaw ==
    /\ cleanPc = "fence"
    /\ cleanOut' = Append(cleanOut, StripDailyLaw(cleanOut[3]))
    /\ cleanPc' = "dailylaw"
    /\ UNCHANGED <<cleanIn, grpVars, sumVars, machineVars, autoVars>>

\* return content.trim()
StepTrim ==
    /\ cleanPc = "dailylaw"
    /\ cleanOut' = Append(cleanOut, Trim(cleanOut[4]))
    /\ cleanPc' = "trimmed"
    /\ UNCHANGED <<cleanIn, grpVars, sumVars, machineVars, autoVars>>

StepsNext == StepFrontmatter \/ StepDailies \/ StepFence \/ StepDailyLaw \/ StepTrim

SpecSteps == StepsInit /\ [][StepsNext]_vars

\* C21: of a text that begins with a delimiter line the first statement
\* removes everything through the next delimiter line, whatever the block
\* holds and also when that line ends the text, and leaves the text as it
\* is when there is no such line
C21_FrontmatterStep ==
    cleanPc # "start" =>
        \A n \in FrontNotes : n.text = cleanIn => cleanOut[1] = n.expected

\* C22: of a text with a heading line the block statements remove the
\* heading line alone when no checklist line follows it at once, and the
\* heading line with the run of checklist lines that follows it at once
C22_HeadingStep ==
    cleanPc \in {"dailylaw", "trimmed"} =>
        \A n \in HeadingNotes : n.text = cleanIn => cleanOut[4] = n.expected

(***************************************************************************)
(* The hourly timer of onload and checkAutoGenerate.  Instants are minutes *)
(* since 1970-01-01T00:00Z.                                                *)
(***************************************************************************)
MaxTicks == 60

\* new Date() at an instant: the getters used look at whole hours only
DateAtMinute(minute) == DateAt(minute \div 60)

\* a checkAutoGenerate whose weekly test is the else branch of the monthly toggle
checkAutoGenerateElse(s, date, tz) ==
    IF s.autoGenerateMonthly
    THEN IF getDate(date, tz) = 1 /\ getHours(date, tz) = 0 THEN <<"monthly">> ELSE <<>>
    ELSE IF s.autoGenerateWeekly /\ getDay(date, tz) = 0 /\ getHours(date, tz) = 0
         THEN <<"weekly">> ELSE <<>>

\* checkAutoGenerate() with now = date: the operations it starts, in order
checkAutoGenerate(s, date, tz) ==
    (IF s.autoGenerateMonthly /\ getDate(date, tz) = 1 /\ getHours(date, tz) = 0
     THEN <<"monthly">> ELSE <<>>)
    \o (IF s.autoGenerateWeekly /\ getDay(date, tz) = 0 /\ getHours(date, tz) = 0
        THEN <<"weekly">> ELSE <<>>)

\* window.setInterval(..., 3600000), in minutes
TickPeriod == 60

\* a timer that fires every other hour
TickInstantSlow(start, k) == start + k * 2 * TickPeriod

\* the instant of the k-th tick of a timer registered at start
TickInstant(start, k) == start + k * TickPeriod

AutoToggles ==
    [autoGenerateMonthly : BOOLEAN, autoGenerateWeekly : BOOLEAN]

\* the timer is registered late on 2024-02-29 or on 2024-08-31, or early on
\* the day after
AutoStarts ==
    {60 * (24 * DaysFromCivil(2024, 2, 29) + 22) + m : m \in {0, 59, 60, 90, 120, 130}}
    \cup {60 * (24 * DaysFromCivil(2024, 8, 31) + 22) + m : m \in {0, 59, 60, 90, 120, 130}}

AutoInit ==
    /\ autoSettings \in AutoToggles
    /\ autoTz \in HostOffsets
    /\ autoStart \in AutoStarts
    /\ autoTicks = 0
    /\ autoStarted = <<>>
    /\ CleanAtRest
    /\ GroupAtRest
    /\ SummaryAtRest
    /\ MachineAtRest

\* the interval fires: () => this.checkAutoGenerate()
Tick ==
    /\ autoTicks < MaxTicks
    /\ autoTicks' = autoTicks + 1
    /\ autoStarted' = Append(autoStarted,
          checkAutoGenerate(autoSettings,
                            DateAtMinute(TickInstant(autoStart, autoTicks + 1)), autoTz))
    /\ UNCHANGED <<autoSettings, autoTz, autoStart, cleanVars, grpVars, sumVars, machineVars>>

AutoNext == Tick

SpecAuto == AutoInit /\ [][AutoNext]_vars

\* the calendar of the instants the timer can reach: the days that are the
\* first of a month, and the Sundays
FirstsOfMonth == {DaysFromCivil(2024, 3, 1), DaysFromCivil(2024, 9, 1)}
Sundays == {DaysFromCivil(2024, 2, 25), DaysFromCivil(2024, 3, 3),
            DaysFromCivil(2024, 8, 25), DaysFromCivil(2024, 9, 1)}

\* the host's wall clock at an instant: minutes since 1970-01-01T00:00 local
WallClock(minute) == minute + 60 * autoTz
InHourZeroOf(days, minute) ==
    /\ WallClock(minute) \div 1440 \in days
    /\ WallClock(minute) % 1440 < 60

\* C11: at every tick, monthly generation is started exactly when the
\* monthly toggle is on and it is hour 0 of a first of the month, weekly
\* generation exactly when the weekly toggle is on and it is hour 0 of a
\* Sunday, each whatever the other toggle and the other test say
C11_AutoPredicate ==
    \A k \in 1..Len(autoStarted) :
        LET at == TickInstant(autoStart, k)
        IN  /\ ("monthly" \in Range(autoStarted[k]))
                = (autoSettings.autoGenerateMonthly /\ InHourZeroOf(FirstsOfMonth, at))
            /\ ("weekly" \in Range(autoStarted[k]))
                = (autoSettings.autoGenerateWeekly /\ InHourZeroOf(Sundays, at))

\* with both toggles on, a tick in hour 0 of Sunday 2024-09-01 has started
\* both, a tick in hour 0 of Friday 2024-03-01 the monthly only, a tick in
\* hour 1 of it nothing
C11_Witness ==
    /\ autoSettings.autoGenerateMonthly
    /\ autoSettings.autoGenerateWeekly
    /\ \E k \in 1..Len(autoStarted) :
         /\ InHourZeroOf({DaysFromCivil(2024, 9, 1)}, TickInstant(autoStart, k))
         /\ autoStarted[k] = <<"monthly", "weekly">>

\* the instant at which hour 0 of a day begins on the host's wall clock
HourZero(day) == 1440 * day - 60 * autoTz

\* some tick so far fell in hour 0 of the day and started the operation
Observed(day, op) ==
    \E k \in 1..autoTicks :
        /\ HourZero(day) <= TickInstant(autoStart, k)
        /\ TickInstant(autoStart, k) < HourZero(day) + 60
        /\ op \in Range(autoStarted[k])

\* the hour 0 of the day ends after the first tick, and a tick at or after
\* its beginning has fired
Passed(day) ==
    /\ autoTicks >= 1
    /\ TickInstant(autoStart, 1) < HourZero(day) + 60
    /\ TickInstant(autoStart, autoTicks) >= HourZero(day)

\* C20: with the timer ticking every hour, every hour 0 of a first of the
\* month (monthly toggle on) and of a Sunday (weekly toggle on) that the
\* ticks have passed was observed by a tick that started the generation,
\* and no tick outside such an hour started it
C20_HourlyObserved ==
    /\ \A day \in FirstsOfMonth :
          (autoSettings.autoGenerateMonthly /\ Passed(day)) => Observed(day, "monthly")
    /\ \A day \in Sundays :
          (autoSettings.autoGenerateWeekly /\ Passed(day)) => Observed(day, "weekly")
    /\ \A k \in 1..Len(autoStarted) :
          /\ "monthly" \in Range(autoStarted[k]) =>
                \E day \in FirstsOfMonth :
                    TickInstant(autoStart, k) - HourZero(day) \in 0..59
          /\ "weekly" \in Range(autoStarted[k]) =>
                \E day \in Sundays :
                    TickInstant(autoStart, k) - HourZero(day) \in 0..59

\* a timer registered off the hour has passed hour 0 of 2024-03-01 and of
\* Sunday 2024-03-03 and started the monthly and the weekly generation there
C20_Witness ==
    /\ autoStart % 60 # 0
    /\ autoSettings.autoGenerateMonthly
    /\ autoSettings.autoGenerateWeekly
    /\ Passed(DaysFromCivil(2024, 3, 1))
    /\ Observed(DaysFromCivil(2024, 3, 1), "monthly")
    /\ Passed(DaysFromCivil(2024, 3, 3))
    /\ Observed(DaysFromCivil(2024, 3, 3), "weekly")
    /\ TickInstant(autoStart, autoTicks) >= HourZero(DaysFromCivil(2024, 3, 3)) + 60

====
